---- MODULE Spec2Model ----
(***************************************************************************)
(* A model of CyberNetMon: NetworkMonitor (src/monitor.py) and the parts   *)
(* of CyberWatchGUI (src/main.py) that drive it.                           *)
(*                                                                         *)
(* Execution contexts: the GUI main thread ("gui"), the periodic monitor   *)
(* threads spawned by start_monitoring (Tasks) and the worker threads      *)
(* spawned by manual_refresh (Workers).  All of them share one             *)
(* NetworkMonitor: geo_cache, monitoring, monitor_thread, callback.        *)
(*                                                                         *)
(* Calls of Tk made off the main thread are taken to go through at once;   *)
(* a threaded Tcl build would hold them until the main loop is free.       *)
(*                                                                         *)
(* The specifications share the actions: Spec (the GUI: the user presses   *)
(* the monitoring, refresh, export and clear buttons), SpecSched           *)
(* (start_monitoring and stop_monitoring called at will, the GUI's         *)
(* callback registered), SpecLoop (monitoring runs on), SpecExport (a      *)
(* thread exports beside the monitor thread), SpecShared (a thread asks    *)
(* for the statistics beside the monitor thread), SpecPartial (cycles cut  *)
(* short), SpecCaller (a thread calls get_active_connections,              *)
(* get_connection_stats and export_connections in sequence), SpecResolve   *)
(* (get_geolocation and clear_cache called in sequence against a mock      *)
(* provider) and SpecFlag (_get_country_flag).  Spec and SpecSched begin   *)
(* after CyberWatchGUI.__init__ (InitGui), the others after                *)
(* NetworkMonitor.__init__ (Init).                                         *)
(*                                                                         *)
(* Data: an IP address is the tuple of its groups (four octets for IPv4,   *)
(* eight 16-bit groups for IPv6; any other tuple is a string that          *)
(* ipaddress.ip_address rejects).  A text of code points (country code,    *)
(* flag glyph) is a tuple of code points.                                  *)
(***************************************************************************)
EXTENDS Integers, Sequences, FiniteSets, TLC

VARIABLES
    geo_cache,        \* NetworkMonitor.geo_cache: function, DOMAIN = cached ips
    monitoring,       \* NetworkMonitor.monitoring
    monitor_thread,   \* NetworkMonitor.monitor_thread: None or a task id
    callback,         \* NetworkMonitor.callback
    ctx,              \* per execution context: position and locals
    after_queue,      \* Tk event queue: snapshots scheduled with root.after
    connections_data, \* CyberWatchGUI.connections_data
    last,             \* the last start/stop call made, and the flag at its entry
    res,              \* a direct caller of get_geolocation: position, argument, result
    provider_calls,   \* provider invocations per ip since the cache was last cleared
    api,              \* a direct caller of the other NetworkMonitor methods: call and result
    processes,        \* the OS process table: what psutil.Process(pid).name() gives
    in_flight,        \* history: the monitor threads whose cycle was in flight when
                      \* stop_monitoring cleared the flag, and is not delivered yet
    dialog,           \* the modal dialog the GUI shows: "" none, "save" the file
                      \* dialog of export_data, "message" a message box
    presses           \* the number of times a button of the GUI has been pressed

vars == <<geo_cache, monitoring, monitor_thread, callback, ctx, after_queue,
          connections_data, last, res, provider_calls, api, processes, in_flight, dialog,
          presses>>

(***************************************************************************)
(* Bounds of the model                                                     *)
(***************************************************************************)
MaxTasks == 2
MaxWorkers == 1
MaxQueue == 1
MaxCalls == 3
MaxPresses == 3

None == "None"

\* execution contexts: the GUI main thread, the monitor threads, the refresh workers
Gui == 0
Tasks == 1..MaxTasks
Workers == (MaxTasks + 1)..(MaxTasks + MaxWorkers)
Caller == MaxTasks + MaxWorkers + 1     \* a thread calling NetworkMonitor directly
Contexts == {Gui} \cup Tasks \cup Workers \cup {Caller}
NoThread == -1

(***************************************************************************)
(* Addresses                                                               *)
(***************************************************************************)
Pub1 == <<8, 8, 8, 8>>
Pub2 == <<1, 1, 1, 1>>
Pub3 == <<9, 9, 9, 9>>
Priv10 == <<10, 0, 0, 5>>
Priv172 == <<172, 16, 4, 1>>
Loop4 == <<127, 0, 0, 1>>
LinkLocal4 == <<169, 254, 1, 1>>
Loop6 == <<0, 0, 0, 0, 0, 0, 0, 1>>
LinkLocal6 == <<65152, 0, 0, 0, 0, 0, 0, 1>>
Pub6 == <<9734, 18176, 18176, 0, 0, 0, 0, 4369>>
Mapped6Pub == <<0, 0, 0, 0, 0, 65535, 2056, 2056>>    \* ::ffff:8.8.8.8
Mapped6Priv == <<0, 0, 0, 0, 0, 65535, 2560, 5>>      \* ::ffff:10.0.0.5
BadOctet == <<999, 1, 1, 1>>
BadEmpty == <<>>

PublicIPs == {Pub1, Pub2, Pub3, Pub6, Mapped6Pub}
PrivateIPs == {Priv10, Priv172, Mapped6Priv}
LoopbackIPs == {Loop4, Loop6}
LinkLocalIPs == {LinkLocal4, LinkLocal6}
MalformedIPs == {BadOctet, BadEmpty}
AllIPs == PublicIPs \cup PrivateIPs \cup LoopbackIPs \cup LinkLocalIPs \cup MalformedIPs

\* ipaddress.ip_address(ip) succeeds (IPv4Address / IPv6Address); else ValueError
ParsesV4(ip) == Len(ip) = 4 /\ \A i \in 1..4 : ip[i] \in 0..255
ParsesV6(ip) == Len(ip) = 8 /\ \A i \in 1..8 : ip[i] \in 0..65535

\* IPv4Address.is_private: membership in the private-use network list
is_private_v4(ip) ==
    \/ ip[1] = 0
    \/ ip[1] = 10
    \/ ip[1] = 127
    \/ ip[1] = 169 /\ ip[2] = 254
    \/ ip[1] = 172 /\ ip[2] \in 16..31
    \/ ip[1] = 192 /\ ip[2] = 0 /\ ip[3] = 0 /\ ip[4] \in 0..7
    \/ ip[1] = 192 /\ ip[2] = 0 /\ ip[3] = 0 /\ ip[4] \in 170..171
    \/ ip[1] = 192 /\ ip[2] = 0 /\ ip[3] = 2
    \/ ip[1] = 192 /\ ip[2] = 168
    \/ ip[1] = 198 /\ ip[2] \in 18..19
    \/ ip[1] = 198 /\ ip[2] = 51 /\ ip[3] = 100
    \/ ip[1] = 203 /\ ip[2] = 0 /\ ip[3] = 113
    \/ ip[1] \in 240..255

\* IPv6Address.ipv4_mapped: the address is in ::ffff:0:0/96, and the IPv4
\* address held in its last 32 bits
IsV4Mapped(ip) == (\A i \in 1..5 : ip[i] = 0) /\ ip[6] = 65535
ipv4_mapped(ip) == <<ip[7] \div 256, ip[7] % 256, ip[8] \div 256, ip[8] % 256>>

\* IPv6Address.is_private: an IPv4-mapped address answers for the mapped IPv4
\* address; any other by membership in ::/128, ::1/128, 100::/64, 2001::/23,
\* 2001:db8::/32, fc00::/7, fe80::/10
is_private_v6(ip) ==
    IF IsV4Mapped(ip) THEN is_private_v4(ipv4_mapped(ip)) ELSE
    \/ (\A i \in 1..7 : ip[i] = 0) /\ ip[8] \in 0..1
    \/ ip[1] = 256 /\ ip[2] = 0 /\ ip[3] = 0 /\ ip[4] = 0
    \/ ip[1] = 8193 /\ ip[2] \in 0..511
    \/ ip[1] = 8193 /\ ip[2] = 3512
    \/ ip[1] \in 64512..65023
    \/ ip[1] \in 65152..65215

is_loopback(ip) ==
    IF ParsesV4(ip) THEN ip[1] = 127
    ELSE (\A i \in 1..7 : ip[i] = 0) /\ ip[8] = 1

is_link_local(ip) ==
    IF ParsesV4(ip) THEN ip[1] = 169 /\ ip[2] = 254
    ELSE ip[1] \in 65152..65215

\* is_private_ip with a fault: unparseable input is taken to be public
is_private_ip_FailOpen(ip) ==
    IF ParsesV4(ip) THEN is_private_v4(ip) \/ is_loopback(ip) \/ is_link_local(ip)
    ELSE IF ParsesV6(ip) THEN is_private_v6(ip) \/ is_loopback(ip) \/ is_link_local(ip)
    ELSE FALSE

\* NetworkMonitor.is_private_ip
is_private_ip(ip) ==
    IF ParsesV4(ip) THEN is_private_v4(ip) \/ is_loopback(ip) \/ is_link_local(ip)
    ELSE IF ParsesV6(ip) THEN is_private_v6(ip) \/ is_loopback(ip) \/ is_link_local(ip)
    ELSE TRUE

(***************************************************************************)
(* GeoInfo values and the flag glyph                                       *)
(***************************************************************************)
RegionalIndicatorA == 127462   \* ord('\U0001F1E6')
OrdA == 65                     \* ord('A')
GlobeGlyph == <<127757>>       \* U+1F30D
HouseGlyph == <<127968>>       \* U+1F3E0
QuestionGlyph == <<10067>>     \* U+2753

\* str.upper on one code point (ASCII letters)
Upper(c) == IF c \in 97..122 THEN c - 32 ELSE c

\* _get_country_flag with a fault: the code is not put in upper case
_get_country_flag_NoUpper(country_code) ==
    IF country_code = <<>> \/ Len(country_code) # 2 THEN GlobeGlyph
    ELSE [i \in 1..2 |-> country_code[i] - OrdA + RegionalIndicatorA]

\* NetworkMonitor._get_country_flag
_get_country_flag(country_code) ==
    IF country_code = <<>> \/ Len(country_code) # 2 THEN GlobeGlyph
    ELSE [i \in 1..2 |-> Upper(country_code[i]) - OrdA + RegionalIndicatorA]

LocalGeo ==
    [country |-> "Local", city |-> "Local", org |-> "Local Network", flag |-> HouseGlyph]

UnknownGeo ==
    [country |-> "Unknown", city |-> "Unknown", org |-> "Unknown ISP", flag |-> QuestionGlyph]

\* dict.get(key, default) on a parsed JSON object
DictGet(data, key, default) == IF key \in DOMAIN data THEN data[key] ELSE default

\* the GeoInfo built from a 200 response whose body is a JSON object
GeoFromData(data) ==
    [country |-> DictGet(data, "country_name", "Unknown"),
     city    |-> DictGet(data, "city", "Unknown"),
     org     |-> DictGet(data, "org", "Unknown ISP"),
     flag    |-> _get_country_flag(DictGet(data, "country_code", <<>>))]

(***************************************************************************)
(* The geolocation provider: what one requests.get can come back with      *)
(***************************************************************************)
NorwayBody ==
    [country_name |-> "Norway", city |-> "Oslo", org |-> "Telenor", country_code |-> <<78, 79>>]
USBody ==
    [country_name |-> "United States", city |-> "Mountain View", org |-> "Google",
     country_code |-> <<117, 115>>]
JapanBody ==
    [country_name |-> "Japan", city |-> "Tokyo", org |-> "NTT", country_code |-> <<74, 80>>]
SparseBody == [city |-> "Oslo"]

\* kind: "object" a JSON object body, "array" a JSON body that is no object,
\* "notjson" a body that is no JSON, "timeout"/"transport" a RequestException
Responses ==
    {[kind |-> "object", status |-> 200, data |-> NorwayBody],
     [kind |-> "object", status |-> 200, data |-> USBody],
     [kind |-> "object", status |-> 200, data |-> SparseBody],
     [kind |-> "object", status |-> 429, data |-> SparseBody],
     [kind |-> "array", status |-> 200, data |-> SparseBody],
     [kind |-> "notjson", status |-> 200, data |-> SparseBody],
     [kind |-> "timeout", status |-> 0, data |-> SparseBody],
     [kind |-> "transport", status |-> 0, data |-> SparseBody]}

\* the failed lookups of the specification: non-success status, timeout,
\* transport error, malformed body
IsFailure(r) == r.kind # "object" \/ r.status # 200

\* response.json() on a body that is no JSON raises a ValueError that is a
\* requests.RequestException only in requests >= 2.27: both builds are possible
JsonErrorIsRequestException == {TRUE, FALSE}

\* lines 75-97 of get_geolocation on response r: the exception that leaves the
\* function ("" for none) and the GeoInfo cached and returned otherwise
GeoOutcomes(r) ==
    IF r.kind \in {"timeout", "transport"} THEN {[raises |-> "", geo |-> UnknownGeo]}
    ELSE IF r.status # 200 THEN {[raises |-> "", geo |-> UnknownGeo]}
    ELSE IF r.kind = "notjson" THEN
        {IF b THEN [raises |-> "", geo |-> UnknownGeo]
              ELSE [raises |-> "ValueError", geo |-> UnknownGeo] : b \in JsonErrorIsRequestException}
    ELSE IF r.kind = "array" THEN {[raises |-> "AttributeError", geo |-> UnknownGeo]}
    ELSE {[raises |-> "", geo |-> GeoFromData(r.data)]}

\* self.geo_cache[ip] = geo_data
CachePut(cache, ip, geo) ==
    [x \in DOMAIN cache \cup {ip} |-> IF x = ip THEN geo ELSE cache[x]]

EmptyCache == [x \in {} |-> LocalGeo]

(***************************************************************************)
(* get_geolocation, in the three steps another thread can come between:    *)
(* the cache and address checks (lines 62-73), the provider request        *)
(* (line 76) and the handling of its response (lines 77-97)                *)
(***************************************************************************)
\* lines 62-73: "hit" returns the cached value, "local" caches and returns the
\* Local GeoInfo, "miss" goes on to the provider
get_geolocation_entry(cache, ip) ==
    IF ip \in DOMAIN cache THEN [kind |-> "hit", geo |-> cache[ip], cache |-> cache]
    ELSE IF is_private_ip(ip) THEN
        [kind |-> "local", geo |-> LocalGeo, cache |-> CachePut(cache, ip, LocalGeo)]
    ELSE [kind |-> "miss", geo |-> UnknownGeo, cache |-> cache]

\* lines 77-97: the cache after outcome o of the lookup for ip
get_geolocation_finish(cache, ip, o) ==
    IF o.raises # "" THEN cache ELSE CachePut(cache, ip, o.geo)

(***************************************************************************)
(* A sequential caller of the resolver: get_geolocation and clear_cache    *)
(* called one after the other from one thread, against a mock provider     *)
(***************************************************************************)
ResIdle == [op |-> "", pc |-> "idle", ip |-> BadEmpty, ret |-> LocalGeo, raised |-> "",
            asked |-> FALSE, failed |-> FALSE, n |-> 0]

NoCalls == [ip \in AllIPs |-> 0]

\* get_geolocation(ip), lines 60-73
ResCall(ip) ==
    /\ res.pc = "idle"
    /\ res.n < MaxCalls
    /\ LET e == get_geolocation_entry(geo_cache, ip) IN
        /\ geo_cache' = e.cache
        /\ res' = [op |-> "get_geolocation",
                   pc |-> IF e.kind = "miss" THEN "miss" ELSE "idle", ip |-> ip,
                   ret |-> e.geo, raised |-> "", asked |-> FALSE, failed |-> FALSE,
                   n |-> res.n + 1]
    /\ UNCHANGED <<provider_calls, monitoring, monitor_thread, callback, ctx,
                   after_queue, connections_data, last, api, processes, in_flight, dialog, presses>>

\* requests.get(...), line 76: the request goes out
ResIssue ==
    /\ res.pc = "miss"
    /\ res' = [res EXCEPT !.pc = "request", !.asked = TRUE]
    /\ provider_calls' = [provider_calls EXCEPT ![res.ip] = @ + 1]
    /\ UNCHANGED <<geo_cache, monitoring, monitor_thread, callback, ctx,
                   after_queue, connections_data, last, api, processes, in_flight, dialog, presses>>

\* lines 77-97: the response r comes back
ResResponse(r) ==
    /\ res.pc = "request"
    /\ \E o \in GeoOutcomes(r) :
        /\ geo_cache' = get_geolocation_finish(geo_cache, res.ip, o)
        /\ res' = [res EXCEPT !.pc = "idle", !.ret = o.geo, !.raised = o.raises,
                              !.failed = IsFailure(r)]
    /\ UNCHANGED <<provider_calls, monitoring, monitor_thread, callback, ctx,
                   after_queue, connections_data, last, api, processes, in_flight, dialog, presses>>

\* NetworkMonitor.clear_cache
clear_cache ==
    /\ res.pc = "idle"
    /\ res.n < MaxCalls
    /\ geo_cache' = EmptyCache
    /\ provider_calls' = NoCalls
    /\ res' = [ResIdle EXCEPT !.op = "clear_cache", !.n = res.n + 1]
    /\ UNCHANGED <<monitoring, monitor_thread, callback, ctx,
                   after_queue, connections_data, last, api, processes, in_flight, dialog, presses>>

(***************************************************************************)
(* The operating system: sockets (psutil.net_connections) and processes    *)
(***************************************************************************)
NoAddr == [ip |-> <<>>, port |-> 0]      \* psutil's empty raddr ()
PidNA == -1                              \* the text "N/A"

SockA == [pid |-> 4321, type |-> "SOCK_STREAM", laddr |-> [ip |-> Priv10, port |-> 50000],
          raddr |-> [ip |-> Pub1, port |-> 443], status |-> "ESTABLISHED"]
SockA2 == [pid |-> 99, type |-> "SOCK_STREAM", laddr |-> [ip |-> Priv10, port |-> 50001],
           raddr |-> [ip |-> Pub1, port |-> 80], status |-> "CLOSE_WAIT"]
SockB == [pid |-> 0, type |-> "SOCK_DGRAM", laddr |-> [ip |-> Priv10, port |-> 50002],
          raddr |-> [ip |-> Pub6, port |-> 53], status |-> "NONE"]
SockListen == [pid |-> 7, type |-> "SOCK_STREAM", laddr |-> [ip |-> Priv10, port |-> 8080],
               raddr |-> NoAddr, status |-> "LISTEN"]
SockLan == [pid |-> 4321, type |-> "SOCK_STREAM", laddr |-> [ip |-> Priv10, port |-> 50003],
            raddr |-> [ip |-> Priv172, port |-> 22], status |-> "ESTABLISHED"]

SockT2 == [pid |-> 4321, type |-> "SOCK_STREAM", laddr |-> [ip |-> Priv10, port |-> 50004],
           raddr |-> [ip |-> Pub1, port |-> 8443], status |-> "ESTABLISHED"]
SockT3 == [pid |-> 99, type |-> "SOCK_STREAM", laddr |-> [ip |-> Priv10, port |-> 50005],
           raddr |-> [ip |-> Pub2, port |-> 443], status |-> "ESTABLISHED"]
SockU2 == [pid |-> 0, type |-> "SOCK_DGRAM", laddr |-> [ip |-> Priv10, port |-> 50006],
           raddr |-> [ip |-> Pub3, port |-> 123], status |-> "NONE"]

\* what psutil.net_connections(kind='inet') returns: while the user refreshes and
\* exports (OSSnapshots), while the user only starts and stops (SchedSnapshots),
\* and to a direct caller of NetworkMonitor (CallerSnapshots)
OSSnapshots == {<<SockListen, SockA>>, <<SockA, SockB>>, <<SockLan>>}
SchedSnapshots == {<<SockListen, SockA>>}
CallerSnapshots ==
    {<<SockA, SockT2, SockT3, SockB, SockU2>>,
     <<SockListen, SockA, SockLan, SockA2, SockB>>,
     <<SockLan, SockListen>>,
     <<>>}

\* the pids of the processes owning sockets (0: the socket has no pid)
Pids == {7, 99, 4321}

\* what one psutil.Process(pid).name() can give: the name, or the exception
\* raised (OSError stands for any exception that is no psutil.Error)
ProcessOutcomes ==
    {[raises |-> "", name |-> "firefox"],
     [raises |-> "NoSuchProcess", name |-> ""],
     [raises |-> "AccessDenied", name |-> ""],
     [raises |-> "OSError", name |-> ""]}

\* the exceptions named by the except clause of line 30
CaughtByLookup == {"NoSuchProcess", "AccessDenied"}

\* the process table when the program starts
InitProcesses ==
    [pid \in Pids |->
        IF pid = 4321 THEN [raises |-> "", name |-> "firefox"]
        ELSE IF pid = 99 THEN [raises |-> "NoSuchProcess", name |-> ""]
        ELSE [raises |-> "AccessDenied", name |-> ""]]

\* psutil.Process(pid).name() now: the name, or the exception raised
ProcessLookup(pid) == processes[pid]

\* Connection._get_process_name with a fault: the name is remembered from the
\* first lookup of the pid
_get_process_name_Remembered(pid) ==
    IF pid = 0 THEN "System"
    ELSE IF InitProcesses[pid].raises = "" THEN InitProcesses[pid].name
    ELSE "Unknown"

\* Connection._get_process_name; pid None and pid 0 are both falsy.  An
\* exception the except clause does not name leaves the function: there is
\* no name then (see ConnectionRaises)
_get_process_name(pid) ==
    IF pid = 0 THEN "System"
    ELSE IF ProcessLookup(pid).raises = "" THEN ProcessLookup(pid).name
    ELSE IF ProcessLookup(pid).raises \in CaughtByLookup THEN "Unknown"
    ELSE None

\* the exception that leaves Connection.__init__ (line 14), "" when it returns
ConnectionRaises(conn) ==
    IF conn.pid # 0 /\ ProcessLookup(conn.pid).raises \notin CaughtByLookup \cup {""}
    THEN ProcessLookup(conn.pid).raises
    ELSE ""

\* datetime.now(): year, month, day, hour, minute, second, microsecond; the
\* clock stands still
Now == <<2024, 5, 17, 13, 45, 9, 250000>>

\* Connection._format_address: the text "ip:port" as the pair, "" as <<>>
_format_address(addr) == IF addr # NoAddr THEN <<addr.ip, addr.port>> ELSE <<>>

NoGeo == [country |-> None, city |-> None, org |-> None, flag |-> <<>>]

\* Connection.__init__
Connection(conn) ==
    [timestamp      |-> Now,
     process_name   |-> _get_process_name(conn.pid),
     pid            |-> IF conn.pid # 0 THEN conn.pid ELSE PidNA,
     protocol       |-> IF conn.type = "SOCK_STREAM" THEN "TCP" ELSE "UDP",
     local_address  |-> _format_address(conn.laddr),
     remote_address |-> _format_address(conn.raddr),
     remote_ip      |-> IF conn.raddr # NoAddr THEN conn.raddr.ip ELSE <<>>,
     status         |-> conn.status,
     geo_data       |-> NoGeo]

\* the provider's answers: while the user refreshes and exports (PollResponses),
\* and while the user only starts and stops (SchedResponses)
PollResponses ==
    {[kind |-> "object", status |-> 200, data |-> NorwayBody],
     [kind |-> "object", status |-> 429, data |-> SparseBody],
     [kind |-> "array", status |-> 200, data |-> SparseBody]}
SchedResponses ==
    {[kind |-> "object", status |-> 200, data |-> NorwayBody],
     [kind |-> "array", status |-> 200, data |-> SparseBody]}

\* the provider as a function of the ip asked for: the answers it can give
PollProvider == [ip \in PublicIPs |-> PollResponses]
SchedProvider == [ip \in PublicIPs |-> SchedResponses]
CallerProvider ==
    [ip \in PublicIPs |->
        IF ip = Pub1 THEN {[kind |-> "object", status |-> 200, data |-> NorwayBody],
                           [kind |-> "object", status |-> 429, data |-> SparseBody]}
        ELSE IF ip = Pub2 THEN {[kind |-> "object", status |-> 200, data |-> USBody]}
        ELSE IF ip = Pub6 THEN {[kind |-> "object", status |-> 200, data |-> JapanBody],
                                [kind |-> "array", status |-> 200, data |-> SparseBody]}
        ELSE {[kind |-> "object", status |-> 200, data |-> JapanBody]}]

(***************************************************************************)
(* get_active_connections, run by context c (lines 109-125)                *)
(***************************************************************************)
\* locals of a call: seen the list psutil returned, todo what the for loop has
\* yet to visit, cur the Connection being enriched, out the list `connections`,
\* err the exception caught and printed at lines 120-123
NoCtx == [pc |-> "none", why |-> "", seen |-> <<>>, todo |-> <<>>, cur |-> <<>>,
          out |-> <<>>, err |-> ""]
IdleCtx == [NoCtx EXCEPT !.pc = "idle"]

\* the call of get_active_connections by c, on behalf of `why`
BeginCycle(why) == [NoCtx EXCEPT !.pc = "enum", !.why = why]

\* the for loop moves on from the socket at the head of todo
Advance(c, out) ==
    [ctx[c] EXCEPT !.todo = Tail(@), !.out = out, !.cur = <<>>,
                   !.pc = IF Tail(ctx[c].todo) = <<>> THEN "ret" ELSE "conn"]

\* psutil.net_connections(kind='inet') returns the list s
Enumerate(c, snapshots) ==
    /\ ctx[c].pc = "enum"
    /\ \E s \in snapshots :
        ctx' = [ctx EXCEPT ![c] = [@ EXCEPT !.seen = s, !.todo = s,
                                            !.pc = IF s = <<>> THEN "ret" ELSE "conn"]]
    /\ UNCHANGED <<geo_cache, monitoring, monitor_thread, callback, after_queue,
                   connections_data, last, res, provider_calls, api, processes, in_flight, dialog, presses>>

\* EnumerateDenied with a fault: the denial is not caught and ends the thread
EnumerateDenied_Fatal(c) ==
    /\ ctx[c].pc = "enum"
    /\ ctx' = [ctx EXCEPT ![c] = [NoCtx EXCEPT !.pc = "done", !.err = "AccessDenied"]]
    /\ UNCHANGED <<geo_cache, monitoring, monitor_thread, callback, after_queue,
                   connections_data, last, res, provider_calls, api, processes, in_flight, dialog, presses>>

\* psutil.net_connections raises psutil.AccessDenied: lines 120-121, 125
EnumerateDenied(c) ==
    /\ ctx[c].pc = "enum"
    /\ ctx' = [ctx EXCEPT ![c] = [@ EXCEPT !.pc = "ret", !.err = "AccessDenied"]]
    /\ UNCHANGED <<geo_cache, monitoring, monitor_thread, callback, after_queue,
                   connections_data, last, res, provider_calls, api, processes, in_flight, dialog, presses>>

\* psutil.net_connections raises another exception: lines 122-123, 125
EnumerateRaises(c) ==
    /\ ctx[c].pc = "enum"
    /\ ctx' = [ctx EXCEPT ![c] = [@ EXCEPT !.pc = "ret", !.err = "Exception"]]
    /\ UNCHANGED <<geo_cache, monitoring, monitor_thread, callback, after_queue,
                   connections_data, last, res, provider_calls, api, processes, in_flight, dialog, presses>>

\* ProcessConn with a fault: the filter of line 115 is lost
ProcessConn_KeepsAll(c) ==
    /\ ctx[c].pc = "conn"
    /\ LET connection == Connection(Head(ctx[c].todo))
           e == get_geolocation_entry(geo_cache, connection.remote_ip)
       IN  IF e.kind = "miss" THEN
               /\ ctx' = [ctx EXCEPT ![c] = [@ EXCEPT !.pc = "miss", !.cur = <<connection>>]]
               /\ UNCHANGED geo_cache
           ELSE
               /\ ctx' = [ctx EXCEPT ![c] =
                           Advance(c, Append(ctx[c].out, [connection EXCEPT !.geo_data = e.geo]))]
               /\ geo_cache' = e.cache
    /\ UNCHANGED <<monitoring, monitor_thread, callback, after_queue,
                   connections_data, last, res, provider_calls, api, processes, in_flight, dialog, presses>>

\* one pass of the for loop up to the provider request: lines 115-118, 62-73
ProcessConn(c) ==
    /\ ctx[c].pc = "conn"
    /\ LET conn == Head(ctx[c].todo) IN
        IF conn.raddr # NoAddr /\ ~is_private_ip(conn.raddr.ip) THEN
            LET connection == Connection(conn)
                e == get_geolocation_entry(geo_cache, connection.remote_ip)
            IN  IF ConnectionRaises(conn) # "" THEN
                    /\ ctx' = [ctx EXCEPT ![c] =
                                [@ EXCEPT !.todo = <<>>, !.cur = <<>>, !.pc = "ret",
                                          !.err = ConnectionRaises(conn)]]
                    /\ UNCHANGED geo_cache
                ELSE IF e.kind = "miss" THEN
                    /\ ctx' = [ctx EXCEPT ![c] = [@ EXCEPT !.pc = "miss", !.cur = <<connection>>]]
                    /\ UNCHANGED geo_cache
                ELSE
                    /\ ctx' = [ctx EXCEPT ![c] =
                                Advance(c, Append(ctx[c].out, [connection EXCEPT !.geo_data = e.geo]))]
                    /\ geo_cache' = e.cache
        ELSE
            /\ ctx' = [ctx EXCEPT ![c] = Advance(c, ctx[c].out)]
            /\ UNCHANGED geo_cache
    /\ UNCHANGED <<monitoring, monitor_thread, callback, after_queue,
                   connections_data, last, res, provider_calls, api, processes, in_flight, dialog, presses>>

\* requests.get(...), line 76: the request goes out
GeoIssue(c) ==
    /\ ctx[c].pc = "miss"
    /\ ctx' = [ctx EXCEPT ![c] = [@ EXCEPT !.pc = "request"]]
    /\ UNCHANGED <<geo_cache, monitoring, monitor_thread, callback, after_queue,
                   connections_data, last, res, provider_calls, api, processes, in_flight, dialog, presses>>

\* GeoResponse with a fault: when get_geolocation raises, the records made so
\* far are lost
GeoResponse_LosesRecords(c, provider) ==
    /\ ctx[c].pc = "request"
    /\ LET connection == ctx[c].cur[1] IN
       \E r \in provider[connection.remote_ip] : \E o \in GeoOutcomes(r) :
        /\ geo_cache' = get_geolocation_finish(geo_cache, connection.remote_ip, o)
        /\ ctx' = [ctx EXCEPT ![c] =
                    IF o.raises # ""
                    THEN [@ EXCEPT !.todo = <<>>, !.cur = <<>>, !.out = <<>>,
                                   !.pc = "ret", !.err = o.raises]
                    ELSE Advance(c, Append(ctx[c].out, [connection EXCEPT !.geo_data = o.geo]))]
    /\ UNCHANGED <<monitoring, monitor_thread, callback, after_queue,
                   connections_data, last, res, provider_calls, api, processes, in_flight, dialog, presses>>

\* lines 77-97 and 117-118: the response comes back; an exception leaving
\* get_geolocation ends the for loop at lines 122-125
GeoResponse(c, provider) ==
    /\ ctx[c].pc = "request"
    /\ LET connection == ctx[c].cur[1] IN
       \E r \in provider[connection.remote_ip] : \E o \in GeoOutcomes(r) :
        /\ geo_cache' = get_geolocation_finish(geo_cache, connection.remote_ip, o)
        /\ ctx' = [ctx EXCEPT ![c] =
                    IF o.raises # ""
                    THEN [@ EXCEPT !.todo = <<>>, !.cur = <<>>, !.pc = "ret", !.err = o.raises]
                    ELSE Advance(c, Append(ctx[c].out, [connection EXCEPT !.geo_data = o.geo]))]
    /\ UNCHANGED <<monitoring, monitor_thread, callback, after_queue,
                   connections_data, last, res, provider_calls, api, processes, in_flight, dialog, presses>>

(***************************************************************************)
(* The monitor thread: NetworkMonitor._monitor_loop (lines 146-156)        *)
(***************************************************************************)
Alive(t) == ctx[t].pc \notin {"none", "done"}
\* lines 150-152: thread t is in a cycle whose snapshot is not handed over yet
InFlight(t) == ctx[t].why = "poll" /\ ctx[t].pc \notin {"none", "done"}
FreeTasks == {t \in Tasks : ~Alive(t)}
FreeWorkers == {w \in Workers : ctx[w].pc = "none"}
Least(S) == CHOOSE x \in S : \A y \in S : x <= y

\* LoopCheck with a fault: the loop never looks at the flag again
LoopCheck_IgnoresFlag(t) ==
    /\ ctx[t].pc = "loop"
    /\ ctx' = [ctx EXCEPT ![t] = BeginCycle("poll")]
    /\ UNCHANGED <<geo_cache, monitoring, monitor_thread, callback, after_queue,
                   connections_data, last, res, provider_calls, api, processes, in_flight, dialog, presses>>

\* `while self.monitoring:`, line 148: the next cycle begins, or the thread ends
LoopCheck(t) ==
    /\ ctx[t].pc = "loop"
    /\ ctx' = [ctx EXCEPT ![t] = IF monitoring THEN BeginCycle("poll")
                                ELSE [NoCtx EXCEPT !.pc = "done"]]
    /\ UNCHANGED <<geo_cache, monitoring, monitor_thread, callback, after_queue,
                   connections_data, last, res, provider_calls, api, processes, in_flight, dialog, presses>>

\* `if self.callback:`, line 151: the first read of the callback.  With none
\* registered the thread goes to the sleep of line 153; with one registered it
\* goes on to the call of line 152, which reads self.callback again: no lock
\* is held, and set_update_callback can run between the two reads
CheckCallback(t) ==
    /\ ctx[t].pc = "ret" /\ ctx[t].why = "poll"
    /\ IF callback
       THEN /\ ctx' = [ctx EXCEPT ![t] = [@ EXCEPT !.pc = "call"]]
            /\ UNCHANGED in_flight
       ELSE /\ ctx' = [ctx EXCEPT ![t] = [NoCtx EXCEPT !.pc = "sleep"]]
            /\ in_flight' = in_flight \ {t}
    /\ UNCHANGED <<geo_cache, monitoring, monitor_thread, callback, after_queue,
                   connections_data, last, res, provider_calls, api, processes, dialog, presses>>

\* `self.callback(connections)`, line 152, with main.py 415: the callback read
\* now is called on the monitor thread; update_connections_display stores the
\* snapshot first, its Tk calls (main.py 417-435) are still to come
Deliver(t) ==
    /\ ctx[t].pc = "call"
    /\ callback
    /\ connections_data' = ctx[t].out
    /\ ctx' = [ctx EXCEPT ![t] = [NoCtx EXCEPT !.pc = "show"]]
    /\ UNCHANGED <<geo_cache, monitoring, monitor_thread, callback, after_queue,
                   last, res, provider_calls, api, processes, dialog, presses>>
    /\ in_flight' = in_flight \ {t}

\* main.py 417-441 on the monitor thread: the tree is emptied and refilled
\* and update_stats calls get_connection_stats, a cycle of its own
ShowSnapshot(t) ==
    /\ ctx[t].pc = "show"
    /\ ctx' = [ctx EXCEPT ![t] = BeginCycle("stats")]
    /\ UNCHANGED <<geo_cache, monitoring, monitor_thread, callback, after_queue,
                   connections_data, last, res, provider_calls, api, processes, in_flight, dialog, presses>>

\* CallbackRaises with a fault: the exception is not caught and ends the thread
CallbackRaises_Fatal(t) ==
    /\ \/ ctx[t].pc = "call"
       \/ ctx[t].pc = "show"
       \/ ctx[t].pc = "ret" /\ ctx[t].why = "stats"
    /\ ctx' = [ctx EXCEPT ![t] = [NoCtx EXCEPT !.pc = "done"]]
    /\ UNCHANGED <<geo_cache, monitoring, monitor_thread, callback, after_queue,
                   connections_data, last, res, provider_calls, api, processes, dialog, presses>>
    /\ in_flight' = in_flight \ {t}

\* the call of line 152 raises, lines 154-156 catch it and sleep one second:
\* at the call itself (self.callback has become None since line 151:
\* TypeError; or a consumer that raises before it stores anything), in a Tk
\* call of update_connections_display made off the main thread after the
\* list is stored (main.py 417-435), or in the Tk calls of update_stats after
\* the statistics cycle (main.py 445).  Once the call is under way the
\* callback attribute is not read again
CallbackRaises(t) ==
    /\ \/ ctx[t].pc = "call"
       \/ ctx[t].pc = "show"
       \/ ctx[t].pc = "ret" /\ ctx[t].why = "stats"
    /\ ctx' = [ctx EXCEPT ![t] = [NoCtx EXCEPT !.pc = "sleep_err"]]
    /\ UNCHANGED <<geo_cache, monitoring, monitor_thread, callback, after_queue,
                   connections_data, last, res, provider_calls, api, processes, dialog, presses>>
    /\ in_flight' = in_flight \ {t}

\* main.py 440-445 on the monitor thread, then monitor.py 153: the callback
\* returns and the thread sleeps for update_interval
StatsDoneTask(t) ==
    /\ ctx[t].pc = "ret" /\ ctx[t].why = "stats"
    /\ ctx' = [ctx EXCEPT ![t] = [NoCtx EXCEPT !.pc = "sleep"]]
    /\ UNCHANGED <<geo_cache, monitoring, monitor_thread, callback, after_queue,
                   connections_data, last, res, provider_calls, api, processes, in_flight, dialog, presses>>

\* Wake with a fault: after the sleep the next cycle begins without the flag
\* being looked at
Wake_SkipsCheck(t) ==
    /\ ctx[t].pc \in {"sleep", "sleep_err"}
    /\ ctx' = [ctx EXCEPT ![t] = BeginCycle("poll")]
    /\ UNCHANGED <<geo_cache, monitoring, monitor_thread, callback, after_queue,
                   connections_data, last, res, provider_calls, api, processes, in_flight, dialog, presses>>

\* time.sleep returns (line 153 or 156)
Wake(t) ==
    /\ ctx[t].pc \in {"sleep", "sleep_err"}
    /\ ctx' = [ctx EXCEPT ![t] = [NoCtx EXCEPT !.pc = "loop"]]
    /\ UNCHANGED <<geo_cache, monitoring, monitor_thread, callback, after_queue,
                   connections_data, last, res, provider_calls, api, processes, in_flight, dialog, presses>>

(***************************************************************************)
(* Calls made on the GUI thread                                            *)
(***************************************************************************)
Called(op) == [op |-> op, was |-> monitoring]

\* start_monitoring with a fault: the `if self.monitoring: return` guard is lost
start_monitoring_NoGuard ==
    /\ ctx[Gui].pc = "idle"
    /\ FreeTasks # {}
    /\ monitoring' = TRUE
    /\ monitor_thread' = Least(FreeTasks)
    /\ ctx' = [ctx EXCEPT ![Least(FreeTasks)] = [NoCtx EXCEPT !.pc = "loop"]]
    /\ last' = Called("start_monitoring")
    /\ UNCHANGED <<geo_cache, callback, after_queue, connections_data, res, provider_calls, api, processes, dialog, presses>>
    /\ in_flight' = {}

\* NetworkMonitor.start_monitoring (lines 127-138)
start_monitoring ==
    /\ ctx[Gui].pc = "idle"
    /\ IF monitoring
       THEN UNCHANGED <<monitoring, monitor_thread, ctx>>
       ELSE /\ FreeTasks # {}
            /\ monitoring' = TRUE
            /\ monitor_thread' = Least(FreeTasks)
            /\ ctx' = [ctx EXCEPT ![Least(FreeTasks)] = [NoCtx EXCEPT !.pc = "loop"]]
    /\ last' = Called("start_monitoring")
    /\ UNCHANGED <<geo_cache, callback, after_queue, connections_data, res, provider_calls, api, processes, dialog, presses>>
    /\ in_flight' = IF monitoring THEN in_flight ELSE {}

\* stop_monitoring with a fault: it also clears the geo cache
stop_monitoring_ClearsCache ==
    /\ ctx[Gui].pc = "idle"
    /\ monitoring' = FALSE
    /\ geo_cache' = EmptyCache
    /\ ctx' = [ctx EXCEPT ![Gui] = IF monitor_thread # NoThread
                                  THEN [IdleCtx EXCEPT !.pc = "join"] ELSE IdleCtx]
    /\ last' = Called("stop_monitoring")
    /\ UNCHANGED <<monitor_thread, callback, after_queue, connections_data,
                   res, provider_calls, api, processes, dialog, presses>>
    /\ in_flight' = IF monitoring THEN {t \in Tasks : InFlight(t)} ELSE in_flight

\* NetworkMonitor.stop_monitoring up to the join (lines 140-144)
stop_monitoring ==
    /\ ctx[Gui].pc = "idle"
    /\ monitoring' = FALSE
    /\ ctx' = [ctx EXCEPT ![Gui] = IF monitor_thread # NoThread
                                  THEN [IdleCtx EXCEPT !.pc = "join"] ELSE IdleCtx]
    /\ last' = Called("stop_monitoring")
    /\ UNCHANGED <<geo_cache, monitor_thread, callback, after_queue, connections_data,
                   res, provider_calls, api, processes, dialog, presses>>
    /\ in_flight' = IF monitoring THEN {t \in Tasks : InFlight(t)} ELSE in_flight

\* monitor_thread.join(timeout=1) returns: the thread has ended, or the second
\* has passed
JoinReturn ==
    /\ ctx[Gui].pc = "join"
    /\ ctx' = [ctx EXCEPT ![Gui] = IdleCtx]
    /\ UNCHANGED <<geo_cache, monitoring, monitor_thread, callback, after_queue,
                   connections_data, last, res, provider_calls, api, processes, in_flight, dialog, presses>>

\* NetworkMonitor.set_update_callback (lines 48-50): cb is TRUE for a consumer,
\* FALSE for None
set_update_callback(cb) ==
    /\ callback' = cb
    /\ UNCHANGED <<geo_cache, monitoring, monitor_thread, ctx, after_queue,
                   connections_data, last, res, provider_calls, api, processes,
                   in_flight, dialog, presses>>

\* CyberWatchGUI.toggle_monitoring (main.py 374-399), the monitoring button:
\* start_monitoring when the flag is clear, stop_monitoring when it is set
toggle_monitoring ==
    /\ ctx[Gui].pc = "idle"
    /\ dialog = ""
    /\ presses < MaxPresses
    /\ presses' = presses + 1
    /\ IF monitoring
       THEN /\ monitoring' = FALSE
            /\ ctx' = [ctx EXCEPT ![Gui] = IF monitor_thread # NoThread
                                          THEN [IdleCtx EXCEPT !.pc = "join"] ELSE IdleCtx]
            /\ last' = Called("stop_monitoring")
            /\ in_flight' = {t \in Tasks : InFlight(t)}
            /\ UNCHANGED monitor_thread
       ELSE /\ FreeTasks # {}
            /\ monitoring' = TRUE
            /\ monitor_thread' = Least(FreeTasks)
            /\ ctx' = [ctx EXCEPT ![Least(FreeTasks)] = [NoCtx EXCEPT !.pc = "loop"]]
            /\ last' = Called("start_monitoring")
            /\ in_flight' = {}
    /\ UNCHANGED <<geo_cache, callback, after_queue, connections_data, res,
                   provider_calls, api, processes, dialog>>

\* CyberWatchGUI.clear_display (main.py 466-478), the clear button
clear_display ==
    /\ ctx[Gui].pc = "idle"
    /\ dialog = ""
    /\ presses < MaxPresses
    /\ presses' = presses + 1
    /\ connections_data' = <<>>
    /\ UNCHANGED <<geo_cache, monitoring, monitor_thread, callback, ctx, after_queue,
                   last, res, provider_calls, api, processes, in_flight, dialog>>

\* CyberWatchGUI.manual_refresh (main.py 401-411): a worker thread is started
manual_refresh ==
    /\ ctx[Gui].pc = "idle"
    /\ dialog = ""
    /\ presses < MaxPresses
    /\ presses' = presses + 1
    /\ FreeWorkers # {}
    /\ Len(after_queue) < MaxQueue
    /\ ctx' = [ctx EXCEPT ![Least(FreeWorkers)] = BeginCycle("refresh")]
    /\ UNCHANGED <<geo_cache, monitoring, monitor_thread, callback, after_queue,
                   connections_data, last, res, provider_calls, api, processes, in_flight, dialog>>

\* refresh_worker (main.py 403-405): root.after(0, ...) and the thread ends
RefreshDone(w) ==
    /\ ctx[w].pc = "ret" /\ ctx[w].why = "refresh"
    /\ after_queue' = Append(after_queue, ctx[w].out)
    /\ ctx' = [ctx EXCEPT ![w] = NoCtx]
    /\ UNCHANGED <<geo_cache, monitoring, monitor_thread, callback,
                   connections_data, last, res, provider_calls, api, processes, in_flight, dialog, presses>>

\* the main loop runs a scheduled update_connections_display (main.py 413-435),
\* which goes on to update_stats -> get_connection_stats on the GUI thread
AfterCallback ==
    /\ ctx[Gui].pc = "idle"
    /\ after_queue # <<>>
    /\ connections_data' = Head(after_queue)
    /\ after_queue' = Tail(after_queue)
    /\ ctx' = [ctx EXCEPT ![Gui] = BeginCycle("stats")]
    /\ UNCHANGED <<geo_cache, monitoring, monitor_thread, callback, last, res, provider_calls, api, processes, in_flight, dialog, presses>>

\* update_stats returns on the GUI thread (main.py 440-445, 436-438)
StatsDoneGui ==
    /\ ctx[Gui].pc = "ret" /\ ctx[Gui].why = "stats"
    /\ ctx' = [ctx EXCEPT ![Gui] = IdleCtx]
    /\ UNCHANGED <<geo_cache, monitoring, monitor_thread, callback, after_queue,
                   connections_data, last, res, provider_calls, api, processes, in_flight, dialog, presses>>

\* CyberWatchGUI.export_data up to its dialog (main.py 447-457): with nothing
\* shown the "No Data" box appears, else the file dialog.  A dialog is modal:
\* the buttons are blocked, the calls scheduled with root.after still run
export_data ==
    /\ ctx[Gui].pc = "idle"
    /\ dialog = ""
    /\ presses < MaxPresses
    /\ presses' = presses + 1
    /\ dialog' = IF connections_data = <<>> THEN "message" ELSE "save"
    /\ UNCHANGED <<geo_cache, monitoring, monitor_thread, callback, ctx, after_queue,
                   connections_data, last, res, provider_calls, api, processes, in_flight>>

\* the file dialog returns (main.py 453-461): with a file name,
\* export_connections takes its own snapshot on the GUI thread; without one,
\* export_data returns
SaveDialogReturn(chosen) ==
    /\ ctx[Gui].pc = "idle"
    /\ dialog = "save"
    /\ dialog' = ""
    /\ ctx' = [ctx EXCEPT ![Gui] = IF chosen THEN BeginCycle("export") ELSE IdleCtx]
    /\ UNCHANGED <<geo_cache, monitoring, monitor_thread, callback, after_queue,
                   connections_data, last, res, provider_calls, api, processes, in_flight, presses>>

\* export_connections writes the file or raises (monitor.py 183-203); either
\* way export_data shows a message box (main.py 462-464)
ExportDone ==
    /\ ctx[Gui].pc = "ret" /\ ctx[Gui].why = "export"
    /\ ctx' = [ctx EXCEPT ![Gui] = IdleCtx]
    /\ dialog' = "message"
    /\ UNCHANGED <<geo_cache, monitoring, monitor_thread, callback, after_queue,
                   connections_data, last, res, provider_calls, api, processes, in_flight, presses>>

\* the message box is closed and export_data returns (main.py 449-451, 462-464)
MessageClosed ==
    /\ ctx[Gui].pc = "idle"
    /\ dialog = "message"
    /\ dialog' = ""
    /\ UNCHANGED <<geo_cache, monitoring, monitor_thread, callback, ctx, after_queue,
                   connections_data, last, res, provider_calls, api, processes, in_flight, presses>>

(***************************************************************************)
(* Statistics and export (monitor.py 158-171, 177-203)                     *)
(***************************************************************************)
NoStats == [total |-> 0, tcp |-> 0, udp |-> 0, established |-> 0, unique_ips |-> 0,
            unique_countries |-> 0]

\* the indices of the list `connections`
Indices(connections) == 1..Len(connections)

\* the dict built at lines 162-169 with a fault: unique_ips counts the records
ConnectionStats_CountsRecords(connections) ==
    [total            |-> Len(connections),
     tcp              |-> Cardinality({i \in Indices(connections) : connections[i].protocol = "TCP"}),
     udp              |-> Cardinality({i \in Indices(connections) : connections[i].protocol = "UDP"}),
     established      |-> Cardinality({i \in Indices(connections) :
                                          connections[i].status = "ESTABLISHED"}),
     unique_ips       |-> Len(connections),
     unique_countries |-> Cardinality({connections[i].geo_data.country :
                                          i \in {j \in Indices(connections) :
                                                    connections[j].geo_data # NoGeo}})]

\* the dict built at lines 162-169 of get_connection_stats
ConnectionStats(connections) ==
    [total            |-> Len(connections),
     tcp              |-> Cardinality({i \in Indices(connections) : connections[i].protocol = "TCP"}),
     udp              |-> Cardinality({i \in Indices(connections) : connections[i].protocol = "UDP"}),
     established      |-> Cardinality({i \in Indices(connections) :
                                          connections[i].status = "ESTABLISHED"}),
     unique_ips       |-> Cardinality({connections[i].remote_ip : i \in Indices(connections)}),
     unique_countries |-> Cardinality({connections[i].geo_data.country :
                                          i \in {j \in Indices(connections) :
                                                    connections[j].geo_data # NoGeo}})]

\* the keys of an exported entry, in the order lines 186-197 insert them
ExportKeys == <<"timestamp", "process", "pid", "protocol", "local_address",
                "remote_address", "status", "country", "city", "isp">>

\* datetime.isoformat: the microseconds are left out when they are zero
isoformat(ts) == IF ts[7] = 0 THEN SubSeq(ts, 1, 6) ELSE ts

\* the dict appended at lines 186-197 with a fault: no default for missing geo data
ExportEntry_NoDefault(conn) ==
    [timestamp      |-> isoformat(conn.timestamp),
     process        |-> conn.process_name,
     pid            |-> conn.pid,
     protocol       |-> conn.protocol,
     local_address  |-> conn.local_address,
     remote_address |-> conn.remote_address,
     status         |-> conn.status,
     country        |-> conn.geo_data.country,
     city           |-> conn.geo_data.city,
     isp            |-> conn.geo_data.org]

\* the dict appended at lines 186-197 of export_connections
ExportEntry(conn) ==
    [timestamp      |-> isoformat(conn.timestamp),
     process        |-> conn.process_name,
     pid            |-> conn.pid,
     protocol       |-> conn.protocol,
     local_address  |-> conn.local_address,
     remote_address |-> conn.remote_address,
     status         |-> conn.status,
     country        |-> IF conn.geo_data # NoGeo THEN conn.geo_data.country ELSE "Unknown",
     city           |-> IF conn.geo_data # NoGeo THEN conn.geo_data.city ELSE "Unknown",
     isp            |-> IF conn.geo_data # NoGeo THEN conn.geo_data.org ELSE "Unknown"]

\* lines 183-197: the list `data`
ExportData(connections) == [i \in Indices(connections) |-> ExportEntry(connections[i])]

\* json.dump of one value: an int is written as a number, a str as a string
\* (pid is the only int, and is the str "N/A" for a socket without pid)
JsonValue(key, v) ==
    IF key = "pid" /\ v # PidNA THEN [t |-> "number", v |-> v]
    ELSE [t |-> "string", v |-> v]

\* json.dump(data, f, indent=2, ensure_ascii=False): the document is an array
\* of objects, each object the list of its members <<key, value>> in dict order
json_dump(data) ==
    [i \in Indices(data) |->
        [j \in Indices(ExportKeys) |->
            <<ExportKeys[j], JsonValue(ExportKeys[j], data[i][ExportKeys[j]])>>]]

\* json.load of such a document: a list of dicts; of members with the same
\* key the last one counts
json_load(doc) ==
    [i \in Indices(doc) |->
        [k \in {doc[i][j][1] : j \in Indices(doc[i])} |->
            LET j == CHOOSE j \in Indices(doc[i]) :
                        /\ doc[i][j][1] = k
                        /\ \A j2 \in Indices(doc[i]) : j2 > j => doc[i][j2][1] # k
            IN  doc[i][j][2].v]]

(***************************************************************************)
(* A direct caller of NetworkMonitor: get_active_connections,              *)
(* get_connection_stats, export_connections and _get_country_flag called   *)
(* one after the other from one thread                                     *)
(***************************************************************************)
\* snapshot: the list get_active_connections gave the call; file: the document
\* the call wrote (<<>> none, <<doc>> one)
ApiIdle == [op |-> "", pc |-> "idle", n |-> 0, snapshot |-> <<>>, stats |-> NoStats,
            file |-> <<>>, raised |-> "", code |-> <<>>, flag |-> <<>>]

\* a method that starts with get_active_connections is called
ApiCall(op) ==
    /\ api.pc = "idle"
    /\ api.n < MaxCalls
    /\ api' = [ApiIdle EXCEPT !.op = op, !.pc = "run", !.n = api.n + 1]
    /\ ctx' = [ctx EXCEPT ![Caller] = BeginCycle(op)]
    /\ UNCHANGED <<geo_cache, monitoring, monitor_thread, callback, after_queue,
                   connections_data, last, res, provider_calls, processes, in_flight, dialog, presses>>

\* NetworkMonitor.get_active_connections called (line 109)
get_active_connections == ApiCall("get_active_connections")

\* NetworkMonitor.get_connection_stats called (lines 158-160)
get_connection_stats == ApiCall("get_connection_stats")

\* NetworkMonitor.export_connections called with a filename (lines 177-182)
export_connections == ApiCall("export_connections")

\* the call's get_active_connections has returned
ApiAtReturn(op) == api.pc = "run" /\ api.op = op /\ ctx[Caller].pc = "ret"

\* line 125: get_active_connections returns the list
SnapshotReturn ==
    /\ ApiAtReturn("get_active_connections")
    /\ api' = [api EXCEPT !.pc = "idle", !.snapshot = ctx[Caller].out]
    /\ ctx' = [ctx EXCEPT ![Caller] = [@ EXCEPT !.pc = "idle"]]
    /\ UNCHANGED <<geo_cache, monitoring, monitor_thread, callback, after_queue,
                   connections_data, last, res, provider_calls, processes, in_flight, dialog, presses>>

\* lines 162-171: get_connection_stats returns the dict
StatsReturn ==
    /\ ApiAtReturn("get_connection_stats")
    /\ api' = [api EXCEPT !.pc = "idle", !.snapshot = ctx[Caller].out,
                          !.stats = ConnectionStats(ctx[Caller].out)]
    /\ ctx' = [ctx EXCEPT ![Caller] = [@ EXCEPT !.pc = "idle"]]
    /\ UNCHANGED <<geo_cache, monitoring, monitor_thread, callback, after_queue,
                   connections_data, last, res, provider_calls, processes, in_flight, dialog, presses>>

\* lines 183-203: the document is written and the filename returned
ExportReturn ==
    /\ ApiAtReturn("export_connections")
    /\ api' = [api EXCEPT !.pc = "idle", !.snapshot = ctx[Caller].out,
                          !.file = <<json_dump(ExportData(ctx[Caller].out))>>]
    /\ ctx' = [ctx EXCEPT ![Caller] = [@ EXCEPT !.pc = "idle"]]
    /\ UNCHANGED <<geo_cache, monitoring, monitor_thread, callback, after_queue,
                   connections_data, last, res, provider_calls, processes, in_flight, dialog, presses>>

\* ExportRaises with a fault: the failed export also clears the Running flag
ExportRaises_StopsMonitoring ==
    /\ ApiAtReturn("export_connections")
    /\ api' = [api EXCEPT !.pc = "idle", !.snapshot = ctx[Caller].out, !.raised = "OSError"]
    /\ ctx' = [ctx EXCEPT ![Caller] = [@ EXCEPT !.pc = "idle"]]
    /\ monitoring' = FALSE
    /\ UNCHANGED <<geo_cache, monitor_thread, callback, after_queue,
                   connections_data, last, res, provider_calls, processes, in_flight, dialog, presses>>

\* lines 200-201: open or write raises OSError, which leaves export_connections
ExportRaises ==
    /\ ApiAtReturn("export_connections")
    /\ api' = [api EXCEPT !.pc = "idle", !.snapshot = ctx[Caller].out, !.raised = "OSError"]
    /\ ctx' = [ctx EXCEPT ![Caller] = [@ EXCEPT !.pc = "idle"]]
    /\ UNCHANGED <<geo_cache, monitoring, monitor_thread, callback, after_queue,
                   connections_data, last, res, provider_calls, processes, in_flight, dialog, presses>>

\* the letters country codes are written with here, upper and lower case
FlagLetters == {65, 66, 78, 79, 83, 85, 90, 97, 98, 110, 111, 115, 117, 122}

\* country codes: every two-letter code, and texts that are no two-letter code
CountryCodes ==
    {<<a, b>> : a \in FlagLetters, b \in FlagLetters}
        \cup {<<a>> : a \in FlagLetters} \cup {<<>>, <<78, 79, 82>>}

\* NetworkMonitor._get_country_flag(code) called
FlagCall(code) ==
    /\ api.pc = "idle"
    /\ api' = [ApiIdle EXCEPT !.op = "_get_country_flag", !.code = code,
                              !.flag = _get_country_flag(code)]
    /\ UNCHANGED <<geo_cache, monitoring, monitor_thread, callback, ctx, after_queue,
                   connections_data, last, res, provider_calls, processes, in_flight, dialog, presses>>

\* the process pid exits, starts again or becomes inaccessible
ProcessChange(pid) ==
    /\ \E o \in ProcessOutcomes \ {processes[pid]} :
        processes' = [processes EXCEPT ![pid] = o]
    /\ UNCHANGED <<geo_cache, monitoring, monitor_thread, callback, ctx, after_queue,
                   connections_data, last, res, provider_calls, api, in_flight, dialog, presses>>

(***************************************************************************)
(* Specifications                                                          *)
(***************************************************************************)
\* after NetworkMonitor.__init__ (lines 42-46): no callback is registered
Init ==
    /\ geo_cache = EmptyCache
    /\ monitoring = FALSE
    /\ monitor_thread = NoThread
    /\ callback = FALSE
    /\ ctx = [c \in Contexts |-> IF c = Gui THEN IdleCtx ELSE NoCtx]
    /\ after_queue = <<>>
    /\ connections_data = <<>>
    /\ last = [op |-> "", was |-> FALSE]
    /\ res = ResIdle
    /\ provider_calls = NoCalls
    /\ api = ApiIdle
    /\ processes = InitProcesses
    /\ in_flight = {}
    /\ dialog = ""
    /\ presses = 0

\* after CyberWatchGUI.__init__ (main.py 105-114): the monitor is constructed
\* and update_connections_display is registered as its callback
InitGui ==
    /\ geo_cache = EmptyCache
    /\ monitoring = FALSE
    /\ monitor_thread = NoThread
    /\ callback = TRUE
    /\ ctx = [c \in Contexts |-> IF c = Gui THEN IdleCtx ELSE NoCtx]
    /\ after_queue = <<>>
    /\ connections_data = <<>>
    /\ last = [op |-> "", was |-> FALSE]
    /\ res = ResIdle
    /\ provider_calls = NoCalls
    /\ api = ApiIdle
    /\ processes = InitProcesses
    /\ in_flight = {}
    /\ dialog = ""
    /\ presses = 0

\* a step of get_active_connections by c, in the given environment
CycleStep(c, snapshots, provider) ==
    \/ Enumerate(c, snapshots)
    \/ EnumerateDenied(c)
    \/ EnumerateRaises(c)
    \/ ProcessConn(c)
    \/ GeoIssue(c)
    \/ GeoResponse(c, provider)

\* a step of get_active_connections by c where the OS grants every enumeration
CycleStepGranted(c, snapshots, provider) ==
    \/ Enumerate(c, snapshots)
    \/ ProcessConn(c)
    \/ GeoIssue(c)
    \/ GeoResponse(c, provider)

TaskStep(t) ==
    \/ LoopCheck(t)
    \/ CheckCallback(t)
    \/ Deliver(t)
    \/ ShowSnapshot(t)
    \/ CallbackRaises(t)
    \/ StatsDoneTask(t)
    \/ Wake(t)

\* The user presses the monitoring button (start, stop), refreshes, exports
\* and clears the display, MaxPresses times in all; the monitor threads, the
\* refresh workers and the GUI thread run their cycles side by side.
Next ==
    \/ toggle_monitoring
    \/ JoinReturn
    \/ manual_refresh
    \/ clear_display
    \/ AfterCallback
    \/ StatsDoneGui
    \/ export_data
    \/ \E chosen \in BOOLEAN : SaveDialogReturn(chosen)
    \/ ExportDone
    \/ MessageClosed
    \/ \E c \in Contexts : CycleStep(c, OSSnapshots, PollProvider)
    \/ \E t \in Tasks : TaskStep(t)
    \/ \E w \in Workers : RefreshDone(w)

Spec == InitGui /\ [][Next]_vars

\* start_monitoring and stop_monitoring are called at will, with the GUI's
\* callback registered (SpecLoop has the loop without one); every monitor thread spawned
\* runs its loop, and the OS grants its enumerations (SpecLoop has the denied
\* ones).  Threads are scheduled fairly, every request, sleep and join is
\* bounded in time (timeout=3, update_interval, timeout=1), so each running
\* thread takes its next step.
NextSched ==
    \/ start_monitoring
    \/ stop_monitoring
    \/ JoinReturn
    \/ \E t \in Tasks : CycleStepGranted(t, SchedSnapshots, SchedProvider)
    \/ \E t \in Tasks : TaskStep(t)

SpecSched ==
    /\ InitGui /\ [][NextSched]_vars
    /\ WF_vars(JoinReturn)
    /\ \A t \in Tasks : WF_vars(TaskStep(t) \/ CycleStepGranted(t, SchedSnapshots, SchedProvider))

\* the resolver alone, called by one thread
NextResolve ==
    \/ \E ip \in AllIPs : ResCall(ip)
    \/ ResIssue
    \/ \E r \in Responses : ResResponse(r)
    \/ clear_cache

SpecResolve == Init /\ [][NextResolve]_vars

\* a thread calls get_active_connections, get_connection_stats and
\* export_connections one after the other while processes come and go
NextCaller ==
    \/ get_active_connections
    \/ get_connection_stats
    \/ export_connections
    \/ SnapshotReturn
    \/ StatsReturn
    \/ ExportReturn
    \/ ExportRaises
    \/ CycleStep(Caller, CallerSnapshots, CallerProvider)
    \/ ProcessChange(4321)

SpecCaller == Init /\ [][NextCaller]_vars

\* monitoring is started and never stopped; the monitor thread is scheduled
\* fairly, and every request and sleep is bounded in time
NextLoop ==
    \/ \E cb \in BOOLEAN : set_update_callback(cb)
    \/ start_monitoring
    \/ \E t \in Tasks : CycleStep(t, OSSnapshots, PollProvider)
    \/ \E t \in Tasks : TaskStep(t)

SpecLoop ==
    /\ Init /\ [][NextLoop]_vars
    /\ \A t \in Tasks : WF_vars(TaskStep(t) \/ CycleStep(t, OSSnapshots, PollProvider))

\* a thread exports while monitoring is started (and never stopped)
NextExport ==
    \/ \E cb \in BOOLEAN : set_update_callback(cb)
    \/ start_monitoring
    \/ export_connections
    \/ ExportReturn
    \/ ExportRaises
    \/ \E c \in Tasks \cup {Caller} : CycleStep(c, SchedSnapshots, SchedProvider)
    \/ \E t \in Tasks : TaskStep(t)

SpecExport ==
    /\ Init /\ [][NextExport]_vars
    /\ \A t \in Tasks : WF_vars(TaskStep(t) \/ CycleStep(t, SchedSnapshots, SchedProvider))

\* a thread asks for the statistics while the monitor thread polls: both run
\* get_active_connections on the one cache, and the OS reports two sockets to
\* the same remote address
SharedSnapshots == {<<SockA, SockA2>>, <<SockListen, SockA>>}

NextShared ==
    \/ \E cb \in BOOLEAN : set_update_callback(cb)
    \/ start_monitoring
    \/ get_connection_stats
    \/ StatsReturn
    \/ \E c \in Tasks \cup {Caller} : CycleStepGranted(c, SharedSnapshots, CallerProvider)
    \/ \E t \in Tasks : TaskStep(t)

SpecShared == Init /\ [][NextShared]_vars

\* a thread asks for the statistics and exports while the monitor thread
\* polls, the OS may refuse an enumeration, the provider may answer with a
\* body that is no JSON object, and the process table changes under way
PartialSnapshots == {<<SockT3, SockLan, SockA>>}

NextPartial ==
    \/ \E cb \in BOOLEAN : set_update_callback(cb)
    \/ start_monitoring
    \/ get_connection_stats
    \/ export_connections
    \/ StatsReturn
    \/ ExportReturn
    \/ ExportRaises
    \/ \E c \in Tasks \cup {Caller} : CycleStep(c, PartialSnapshots, SchedProvider)
    \/ \E t \in Tasks : TaskStep(t)
    \/ ProcessChange(4321)

SpecPartial == Init /\ [][NextPartial]_vars

\* _get_country_flag alone, called with every country code
NextFlag == \E code \in CountryCodes : FlagCall(code)

SpecFlag == Init /\ [][NextFlag]_vars

(***************************************************************************)
(* The resolver (SpecResolve)                                              *)
(***************************************************************************)
\* the last call of the sequential caller was get_geolocation and has ended
Returned == res.op = "get_geolocation" /\ res.pc = "idle"

NonPublicIPs == PrivateIPs \cup LoopbackIPs \cup LinkLocalIPs \cup MalformedIPs

\* C8: successive get_geolocation(ip) calls with no clear_cache in between
\* invoke the provider at most once for ip, whatever the first call's outcome,
\* and a call that did not invoke it returns what the cache holds.
C8_ProviderAtMostOnce ==
    /\ \A ip \in AllIPs : provider_calls[ip] <= 1
    /\ (Returned /\ ~res.asked) => (res.ip \in DOMAIN geo_cache /\ geo_cache[res.ip] = res.ret)

\* C9: a lookup of an uncached public ip that fails (non-success status,
\* timeout, transport error, malformed body) returns the Unknown GeoInfo and
\* leaves it in geo_cache under the ip; nothing is raised.  (The sentinel is
\* the code's own: country and city "Unknown", org "Unknown ISP", flag U+2753.)
C9_FailureCachedAsUnknown ==
    (Returned /\ res.asked /\ res.failed) =>
        /\ res.raised = ""
        /\ res.ret = UnknownGeo
        /\ res.ip \in DOMAIN geo_cache
        /\ geo_cache[res.ip] = UnknownGeo

\* C10: for a private, loopback, link-local or unparseable address the provider
\* is never invoked, whatever the cache holds, and get_geolocation returns the
\* Local GeoInfo without raising.
C10_NonPublicIsLocal ==
    \A ip \in NonPublicIPs :
        /\ provider_calls[ip] = 0
        /\ (res.op = "get_geolocation" /\ res.ip = ip) =>
              (res.pc = "idle" /\ ~res.asked /\ res.raised = "" /\ res.ret = LocalGeo
               /\ res.ret.country = "Local" /\ res.ret.city = "Local"
               /\ res.ret.org = "Local Network")

\* an unparseable address is resolved a second time, with a public ip cached
C10_Witness ==
    /\ Returned /\ res.ip \in MalformedIPs /\ res.ret = LocalGeo /\ res.n >= 2
    /\ res.ip \in DOMAIN geo_cache
    /\ \E ip \in PublicIPs : ip \in DOMAIN geo_cache

(***************************************************************************)
(* The scheduler (SpecSched)                                               *)
(***************************************************************************)
\* the step is a call of start_monitoring that is no stuttering step
StartCall == last' # last /\ last'.op = "start_monitoring"

\* the step is a call of stop_monitoring that is no stuttering step
StopCall ==
    \/ last' # last /\ last'.op = "stop_monitoring"
    \/ ctx[Gui].pc = "idle" /\ ctx'[Gui].pc = "join"

\* monitor thread t is inside the body of its loop: it has passed the flag check
Looping(t) == Alive(t) /\ ctx[t].pc # "loop"

\* C1: at most one monitor thread is looping at any moment, also after
\* stop_monitoring returned on a timed-out join and start_monitoring followed.
C1_AtMostOneActiveTask ==
    Cardinality({t \in Tasks : Looping(t)}) <= 1

\* C3: start_monitoring called while Running changes nothing: the flag stays
\* set, monitor_thread refers to the same thread and no thread is spawned.
C3_StartWhileRunningIsNoOp ==
    [][(StartCall /\ monitoring) =>
          (monitoring' /\ monitor_thread' = monitor_thread /\ ctx' = ctx)]_vars

\* start_monitoring has been called while the monitor thread was running
C3_Witness ==
    /\ last.op = "start_monitoring" /\ last.was
    /\ monitoring /\ monitor_thread # NoThread /\ Alive(monitor_thread)

\* stop_monitoring clears the flag and touches no monitor thread
StopClearsFlag ==
    [][StopCall =>
          (~monitoring' /\ ctx'[Gui].pc \in {"join", "idle"}
           /\ \A t \in Tasks : ctx'[t] = ctx[t])]_vars

\* the join can return in every state, whether or not the thread has ended
JoinIsBounded == [](ctx[Gui].pc = "join" => ENABLED JoinReturn)

\* a monitor thread ends only at its own check of the cleared flag
EndsOnlyAtFlagCheck ==
    [][\A t \in Tasks : (Alive(t) /\ ctx'[t].pc \in {"none", "done"}) =>
          (ctx[t].pc = "loop" /\ ~monitoring)]_vars

\* with the flag cleared every live monitor thread ends, unless a start sets
\* the flag again
EndsAfterStop ==
    (~monitoring /\ \E t \in Tasks : Alive(t)) ~> (monitoring \/ \A t \in Tasks : ~Alive(t))

\* C4: stop_monitoring clears the Running flag and returns after the bounded
\* join whether or not the thread has ended; the thread is never terminated
\* from outside, and with no start following it ends at its next flag check.
C4_StopIsCooperative ==
    StopClearsFlag /\ JoinIsBounded /\ EndsOnlyAtFlagCheck /\ EndsAfterStop

\* stop_monitoring has returned while the monitor thread is still waiting for
\* the provider or asleep
C4_Witness ==
    /\ last.op = "stop_monitoring" /\ last.was /\ ctx[Gui].pc = "idle" /\ ~monitoring
    /\ monitor_thread # NoThread /\ ctx[monitor_thread].pc \in {"request", "sleep"}

(***************************************************************************)
(* Refresh, statistics and export beside the periodic task (Spec)          *)
(***************************************************************************)
\* the ip whose lookup context c is in
LookupIp(c) == Head(ctx[c].todo).raddr.ip

\* C2: no provider request goes out for an ip that is a key of geo_cache.
C2_NoRequestForCachedIp ==
    [][\A c \in Contexts : (ctx[c].pc = "miss" /\ ctx'[c].pc = "request") =>
          LookupIp(c) \notin DOMAIN geo_cache]_vars

\* C5: a manual refresh enumerates the connections once, on its worker thread:
\* the GUI thread, delivering the worker's snapshot, takes no snapshot of its own.
C5_RefreshEnumeratesOnce ==
    ~(ctx[Gui].why = "stats" /\ ctx[Gui].pc \in {"conn", "miss", "request", "ret"})

\* context c is inside update_connections_display
InDisplay(c) == ctx[c].pc = "show" \/ ctx[c].why = "stats"

\* C6: the consumer update run for the periodic task and the one run for a
\* manual refresh never execute at the same time.
C6_DeliveriesSerialized ==
    ~(InDisplay(Gui) /\ \E t \in Tasks : InDisplay(t))

\* C7: the GUI thread never waits for a geolocation provider request.
C7_GuiNeverAwaitsProvider == ctx[Gui].pc # "request"

(***************************************************************************)
(* The periodic task when a cycle fails (SpecLoop)                         *)
(***************************************************************************)
\* monitor thread t begins a poll cycle
NewPoll(t) == ctx[t].pc = "enum" /\ ctx[t].why = "poll"

\* the poll cycle of t has come back from a denied enumeration
DeniedPoll(t) ==
    ctx[t].pc \in {"ret", "call"} /\ ctx[t].why = "poll" /\ ctx[t].err = "AccessDenied"

\* the step in which the OS denies the poll enumeration of t
DenialStep(t) == NewPoll(t) /\ ctx'[t].err = "AccessDenied"

\* a denied enumeration returns the empty list to the loop and leaves the flag
DenialYieldsEmpty ==
    [][\A t \in Tasks : DenialStep(t) =>
          (ctx'[t].pc = "ret" /\ ctx'[t].out = <<>> /\ monitoring' = monitoring)]_vars

\* what the loop hands to the callback after a denial is the empty list; with
\* no callback registered at line 151 it hands over nothing and sleeps, and a
\* call that raises stores nothing
DenialDeliversEmpty ==
    [][\A t \in Tasks : (DeniedPoll(t) /\ ctx'[t] # ctx[t]) =>
          /\ ctx'[t].pc \in {"call", "show", "sleep_err", "sleep"}
          /\ ctx'[t].pc = "call" => (ctx'[t].out = <<>> /\ connections_data' = connections_data)
          /\ ctx'[t].pc = "show" => connections_data' = <<>>
          /\ ctx'[t].pc = "sleep_err" => connections_data' = connections_data
          /\ ctx'[t].pc = "sleep" => (~callback /\ connections_data' = connections_data)
          /\ monitoring' = monitoring]_vars

\* after a denied cycle the thread begins another poll cycle
PollsAfterDenial == \A t \in Tasks : DeniedPoll(t) ~> NewPoll(t)

\* C11: when the OS denies the enumeration of a poll cycle, the cycle yields
\* the empty snapshot without raising, monitoring stays set and the monitor
\* thread goes on to later cycles.
C11_DeniedCycleIsEmptyAndLoopGoesOn ==
    DenialYieldsEmpty /\ DenialDeliversEmpty /\ PollsAfterDenial

\* a poll cycle after the first has had its enumeration denied
C11_Witness ==
    \E t \in Tasks : DeniedPoll(t) /\ monitoring /\ geo_cache # EmptyCache

\* a cycle of t has failed: an exception was caught in get_active_connections
\* (enumeration or enrichment) or in _monitor_loop (the callback)
FailedCycle(t) ==
    \/ ctx[t].pc = "ret" /\ ctx[t].err # ""
    \/ ctx[t].pc = "sleep_err"

\* with the flag set no step ends a monitor thread
NeverEndsWhileRunning ==
    [][\A t \in Tasks : (Alive(t) /\ monitoring) => Alive(t)']_vars

\* the step after a failure leaves the flag alone and the thread alive
FailureIsAbsorbed ==
    [][\A t \in Tasks : (FailedCycle(t) /\ ctx'[t] # ctx[t]) =>
          (monitoring' = monitoring /\ Alive(t)')]_vars

\* after a failed cycle the thread begins another poll cycle
PollsAfterFailure == \A t \in Tasks : FailedCycle(t) ~> NewPoll(t)

\* C12: while the Running flag stays set the monitor thread never ends: an
\* exception raised in a cycle by enumeration, enrichment or the callback is
\* absorbed, the flag is left unchanged and a later cycle is performed.
C12_LoopSurvivesExceptions ==
    NeverEndsWhileRunning /\ FailureIsAbsorbed /\ PollsAfterFailure

\* the callback has raised in a cycle after the first, and the thread sleeps
C12_Witness ==
    \E t \in Tasks : ctx[t].pc = "sleep_err" /\ monitoring /\ geo_cache # EmptyCache

(***************************************************************************)
(* Stopping with no task active (SpecSched)                                *)
(***************************************************************************)
NoActiveTask == \A t \in Tasks : ~Alive(t)

\* C18: stop_monitoring called when no monitor thread is active (never
\* started, or stopped and ended) is a no-op: the flag stays cleared, no
\* thread is created, geo_cache and the callback are unchanged and the call
\* returns.
C18_StopWithNoTaskIsNoOp ==
    [][(StopCall /\ NoActiveTask) =>
          /\ ~monitoring /\ ~monitoring'
          /\ NoActiveTask'
          /\ monitor_thread' = monitor_thread
          /\ geo_cache' = geo_cache
          /\ callback' = callback
          /\ ctx'[Gui].pc \in {"idle", "join"}]_vars

\* stop_monitoring has been called and has returned after the monitor thread
\* of an earlier run had ended, with addresses in the cache
C18_Witness ==
    /\ last.op = "stop_monitoring" /\ ~last.was /\ ctx[Gui].pc = "idle"
    /\ monitor_thread # NoThread /\ NoActiveTask
    /\ geo_cache # EmptyCache

(***************************************************************************)
(* Snapshots, statistics and export of a direct caller (SpecCaller)        *)
(***************************************************************************)
\* the caller's last call has returned
ApiReturned(op) == api.op = op /\ api.pc = "idle"

\* line 115: the socket has a remote endpoint and the endpoint is public
PassesFilter(s) == s.raddr # NoAddr /\ ~is_private_ip(s.raddr.ip)

\* record r has a remote address and a remote ip
HasRemote(r) == r.remote_address # <<>> /\ r.remote_ip # <<>>

\* record r was made from a socket of the list `sockets` that has a remote endpoint
FromRemoteSocket(r, sockets) ==
    \E i \in Indices(sockets) :
        /\ sockets[i].raddr # NoAddr
        /\ r.remote_address = <<sockets[i].raddr.ip, sockets[i].raddr.port>>
        /\ r.remote_ip = sockets[i].raddr.ip
        /\ r.local_address = <<sockets[i].laddr.ip, sockets[i].laddr.port>>

\* C13: no record of get_active_connections comes from a socket without a
\* remote endpoint: every record has a non-empty remote address and remote ip.
C13_RecordsHaveRemoteEndpoint ==
    /\ \A i \in Indices(ctx[Caller].out) :
          HasRemote(ctx[Caller].out[i]) /\ FromRemoteSocket(ctx[Caller].out[i], ctx[Caller].seen)
    /\ \A i \in Indices(api.snapshot) :
          HasRemote(api.snapshot[i]) /\ FromRemoteSocket(api.snapshot[i], ctx[Caller].seen)

\* get_active_connections has returned records from an enumeration that held
\* a listening socket
C13_Witness ==
    /\ ApiReturned("get_active_connections")
    /\ api.snapshot # <<>>
    /\ \E i \in Indices(ctx[Caller].seen) : ctx[Caller].seen[i] = SockListen

\* C14: the list get_active_connections returns holds one record for each
\* enumerated socket that passes the filter of line 115, in enumeration order.
C14_OneRecordPerFilteredSocket ==
    (api.pc = "idle" /\ api.op \in {"get_active_connections", "get_connection_stats",
                                    "export_connections"}) =>
        LET expected == SelectSeq(ctx[Caller].seen, PassesFilter) IN
        /\ Len(api.snapshot) = Len(expected)
        /\ \A i \in Indices(api.snapshot) :
              /\ api.snapshot[i].local_address = <<expected[i].laddr.ip, expected[i].laddr.port>>
              /\ api.snapshot[i].remote_address = <<expected[i].raddr.ip, expected[i].raddr.port>>

\* the records of the list s that satisfy Test
Matching(s, Test(_)) == Len(SelectSeq(s, Test))
IsTcp(r) == r.protocol = "TCP"
IsUdp(r) == r.protocol = "UDP"
IsEstablished(r) == r.status = "ESTABLISHED"

\* the enumeration of the specification's example: three established TCP
\* sockets to two ips, two UDP sockets to two more ips
ExampleSnapshot == <<SockA, SockT2, SockT3, SockB, SockU2>>

\* C15: get_connection_stats takes a snapshot of its own and reports its
\* counts: total, tcp + udp = total, established, distinct remote ips and
\* distinct countries; the example snapshot gives 5, 3, 2, 3, 4, 3.
C15_StatsCountTheFreshSnapshot ==
    ApiReturned("get_connection_stats") =>
        LET s == api.snapshot
            st == api.stats
        IN  /\ s = ctx[Caller].out
            /\ st.total = Len(s)
            /\ st.tcp = Matching(s, IsTcp)
            /\ st.udp = Matching(s, IsUdp)
            /\ st.tcp + st.udp = st.total
            /\ st.established = Matching(s, IsEstablished)
            /\ st.unique_ips = Cardinality({s[i].remote_ip : i \in Indices(s)})
            /\ st.unique_countries = Cardinality({s[i].geo_data.country : i \in Indices(s)})
            /\ (ctx[Caller].seen = ExampleSnapshot /\ Len(s) = 5) =>
                  st = [total |-> 5, tcp |-> 3, udp |-> 2, established |-> 3,
                        unique_ips |-> 4, unique_countries |-> 3]

\* a second or later get_connection_stats has returned the counts of the example
C15_Witness ==
    /\ ApiReturned("get_connection_stats") /\ api.n >= 2
    /\ ctx[Caller].seen = ExampleSnapshot
    /\ api.stats.total = 5 /\ api.stats.unique_ips = 4 /\ api.stats.unique_countries = 3

\* the entry read back for a record that carries no geo data
ReadBackWithoutGeo(sock) == json_load(json_dump(ExportData(<<Connection(sock)>>)))[1]

\* C16: the document export_connections writes, read back, is a list of as
\* many entries as the snapshot has records, in record order, each with the
\* ten keys; country, city and isp are "Unknown" for a record without geo data.
C16_ExportRoundTrip ==
    /\ (ApiReturned("export_connections") /\ api.file # <<>>) =>
          LET parsed == json_load(api.file[1])
              s == api.snapshot
          IN  /\ Len(parsed) = Len(s)
              /\ \A i \in Indices(parsed) :
                    /\ DOMAIN parsed[i] = {ExportKeys[j] : j \in Indices(ExportKeys)}
                    /\ Cardinality(DOMAIN parsed[i]) = 10
                    /\ parsed[i]["timestamp"] = isoformat(s[i].timestamp)
                    /\ parsed[i]["process"] = s[i].process_name
                    /\ parsed[i]["pid"] = s[i].pid
                    /\ parsed[i]["protocol"] = s[i].protocol
                    /\ parsed[i]["local_address"] = s[i].local_address
                    /\ parsed[i]["remote_address"] = s[i].remote_address
                    /\ parsed[i]["status"] = s[i].status
                    /\ parsed[i]["country"] = s[i].geo_data.country
                    /\ parsed[i]["city"] = s[i].geo_data.city
                    /\ parsed[i]["isp"] = s[i].geo_data.org
    /\ \A sock \in {SockA, SockB} :
          /\ Cardinality(DOMAIN ReadBackWithoutGeo(sock)) = 10
          /\ ReadBackWithoutGeo(sock)["country"] = "Unknown"
          /\ ReadBackWithoutGeo(sock)["city"] = "Unknown"
          /\ ReadBackWithoutGeo(sock)["isp"] = "Unknown"

\* an export of several records, with and without pid, has been written
C16_Witness ==
    /\ ApiReturned("export_connections") /\ api.file # <<>>
    /\ Len(api.file[1]) >= 3
    /\ \E i \in Indices(api.snapshot) : api.snapshot[i].pid = PidNA
    /\ \E i \in Indices(api.snapshot) : api.snapshot[i].pid # PidNA

\* the step in which a forwarded socket is made a Connection by context c
LookupStep(c) ==
    /\ ctx[c].pc = "conn" /\ ctx'[c] # ctx[c] /\ PassesFilter(Head(ctx[c].todo))
    /\ ConnectionRaises(Head(ctx[c].todo)) = ""

\* the Connection made in that step
MadeConnection(c) ==
    IF ctx'[c].pc = "miss" THEN ctx'[c].cur[1] ELSE ctx'[c].out[Len(ctx'[c].out)]

\* C19: the process name is "System" for a socket without pid and "Unknown"
\* when the lookup fails now (the process has exited or access is denied); it
\* is looked up afresh for every record, and a failed lookup does not end the
\* cycle.
C19_ProcessNameLookedUpAfresh ==
    [][\A c \in Contexts : LookupStep(c) =>
          LET pid == Head(ctx[c].todo).pid IN
          /\ MadeConnection(c).process_name =
                IF pid = 0 THEN "System"
                ELSE IF processes[pid].raises \in CaughtByLookup
                     THEN "Unknown"
                     ELSE processes[pid].name
          /\ ctx'[c].err = ""
          /\ ctx'[c].pc \in {"conn", "miss", "ret"}
          /\ Len(ctx'[c].out) >= Len(ctx[c].out)]_vars

\* one returned snapshot holds two records of the same pid, looked up with
\* different results, and a record without pid
C19_Witness ==
    /\ api.pc = "idle" /\ api.op # ""
    /\ \E i, j \in Indices(api.snapshot) :
          /\ api.snapshot[i].pid = api.snapshot[j].pid
          /\ api.snapshot[i].process_name = "firefox"
          /\ api.snapshot[j].process_name = "Unknown"
    /\ \E i \in Indices(api.snapshot) : api.snapshot[i].process_name = "System"

(***************************************************************************)
(* Export beside the periodic task (SpecExport)                            *)
(***************************************************************************)
\* a step of the exporting thread
ExportStep == api' # api \/ ctx'[Caller] # ctx[Caller]

\* no step of the export touches the flag, the thread handle, the callback or
\* a monitor thread
ExportLeavesScheduler ==
    [][ExportStep =>
          /\ monitoring' = monitoring
          /\ monitor_thread' = monitor_thread
          /\ callback' = callback
          /\ \A t \in Tasks : ctx'[t] = ctx[t]]_vars

\* an export that wrote no document has raised to its caller
ExportFailureIsExplicit ==
    [](ApiReturned("export_connections") => (api.file = <<>> <=> api.raised = "OSError"))

\* the export has failed
ExportFailed == ApiReturned("export_connections") /\ api.raised # ""

\* if monitoring is running when the export fails, poll cycles go on
PollsAfterFailedExport ==
    (ExportFailed /\ monitoring) ~> (\E t \in Tasks : NewPoll(t))

\* C17: when the destination cannot be opened or written export_connections
\* raises to its caller, and the scheduler is unaffected: flag and monitor
\* thread are as before the call, and polling continues if it was running.
C17_FailedExportLeavesScheduler ==
    ExportLeavesScheduler /\ ExportFailureIsExplicit /\ PollsAfterFailedExport

\* an export has failed while the monitor thread waits for the provider or sleeps
C17_Witness ==
    /\ ExportFailed /\ monitoring
    /\ \E t \in Tasks : ctx[t].pc \in {"request", "sleep"}

(***************************************************************************)
(* The flag glyph (SpecFlag)                                               *)
(***************************************************************************)
IsLetter(ch) == ch \in 65..90 \/ ch \in 97..122

\* the zero-based position of a letter in the alphabet
AlphabetPosition(ch) == IF ch \in 65..90 THEN ch - 65 ELSE ch - 97

\* C20: the flag of a two-letter code is two code points, each the regional
\* indicator base plus the letter's alphabet position: a function of the code
\* alone ("NO" and "no" give U+1F1F3 U+1F1F4).
C20_FlagIsFunctionOfCode ==
    (api.op = "_get_country_flag" /\ Len(api.code) = 2
        /\ \A i \in 1..Len(api.code) : IsLetter(api.code[i])) =>
        /\ Len(api.flag) = 2
        /\ \A i \in 1..2 : api.flag[i] = RegionalIndicatorA + AlphabetPosition(api.code[i])
        /\ api.code \in {<<78, 79>>, <<110, 111>>} => api.flag = <<127475, 127476>>

\* the flag of the lower-case code "no" has been derived
C20_Witness ==
    api.op = "_get_country_flag" /\ api.code = <<110, 111>> /\ api.flag = <<127475, 127476>>


(***************************************************************************)
(* C21: deliveries after the stop                                          *)
(***************************************************************************)
\* thread t calls the callback in this step (line 152)
CallbackCalled(t) ==
    /\ ctx[t].pc = "call" /\ callback
    /\ ctx'[t] # ctx[t]

\* C21: once stop_monitoring has cleared the flag and no start_monitoring has
\* set it again, the only call a monitor thread makes to the consumer is the
\* one that delivers the cycle that was in flight when the flag was cleared,
\* and that call uses the cycle up: no thread delivers two snapshots after
\* the stop.  Checked under SpecSched.
C21_AtMostOneDeliveryAfterStop ==
    [][\A t \in Tasks :
          (CallbackCalled(t) /\ ~monitoring)
             => (t \in in_flight /\ t \notin in_flight' /\ ~InFlight(t)')]_vars

\* C21 happens: stop_monitoring has cleared the flag and has returned, no
\* start followed, and a thread is handing over the snapshot of the cycle
\* that was in flight
C21_Witness ==
    /\ ~monitoring /\ last.op = "stop_monitoring" /\ ctx[Gui].pc = "idle"
    /\ \E t \in in_flight : ctx[t].pc = "call"


(***************************************************************************)
(* C22, C23: the shared cache under concurrent cycles                      *)
(***************************************************************************)
\* context c completes a record in this step (lines 117-118)
Appends(c) == Len(ctx'[c].out) = Len(ctx[c].out) + 1

\* C22: without clear_cache, geo_cache only grows and an entry never changes
\* once written, whatever poll, refresh, stats and export cycles run side by
\* side; and the GeoInfo a get_geolocation call returns is the one stored
\* under its ip.  Checked under Spec, which has no clear_cache.
C22_CacheEntriesNeverChange ==
    [][/\ \A ip \in DOMAIN geo_cache :
             ip \in DOMAIN geo_cache' /\ geo_cache'[ip] = geo_cache[ip]
       /\ \A c \in Contexts :
             Appends(c) =>
                LET r == ctx'[c].out[Len(ctx'[c].out)]
                IN  r.remote_ip \in DOMAIN geo_cache'
                    /\ r.geo_data = geo_cache'[r.remote_ip]]_vars


\* the records of one snapshot that name the same remote ip carry the same GeoInfo
SameIpSameGeo(snapshot) ==
    \A i, j \in Indices(snapshot) :
        snapshot[i].remote_ip = snapshot[j].remote_ip
            => snapshot[i].geo_data = snapshot[j].geo_data

\* C23: in a snapshot returned by get_active_connections all records with the
\* same remote ip carry the same geo data, and every result of
\* get_connection_stats has unique_countries <= unique_ips <= total, also
\* while the monitor thread runs its cycles on the same cache.  Checked
\* under SpecShared.
C23_OneGeoPerIpInSnapshot ==
    /\ \A c \in Contexts : ctx[c].pc = "ret" => SameIpSameGeo(ctx[c].out)
    /\ ApiReturned("get_connection_stats") =>
          /\ SameIpSameGeo(api.snapshot)
          /\ api.stats.unique_countries <= api.stats.unique_ips
          /\ api.stats.unique_ips <= api.stats.total


(***************************************************************************)
(* C24: a cycle cut short by an exception (SpecPartial)                    *)
(***************************************************************************)
\* an exception is raised inside get_active_connections of context c in this step
Fails(c) == ctx[c].err = "" /\ ctx'[c].err # ""

\* `out` holds completed records of the first sockets of `seen` that pass the
\* filter of line 115, in their order
IsPrefixOfFiltered(out, seen) ==
    LET expected == SelectSeq(seen, PassesFilter) IN
    /\ Len(out) <= Len(expected)
    /\ \A i \in Indices(out) :
          /\ out[i].local_address = <<expected[i].laddr.ip, expected[i].laddr.port>>
          /\ out[i].remote_address = <<expected[i].raddr.ip, expected[i].raddr.port>>
          /\ out[i].geo_data # NoGeo

\* the get_active_connections of the calling thread returns in this step
CallReturns == api.pc = "run" /\ api'.pc = "idle"

\* C24: get_active_connections never raises to its caller.  When the
\* enumeration, a process lookup or a geo resolution raises, the cycle goes
\* to its return with the records completed before the failure, a prefix of
\* the filtered enumeration order (possibly empty); and that list is what
\* the monitor thread delivers, what get_connection_stats counts and what
\* export_connections writes.  Checked under SpecPartial.
C24_FailureTruncatesTheSnapshot ==
    [][/\ \A c \in Contexts :
             /\ Fails(c) => /\ ctx'[c].pc = "ret"
                            /\ ctx'[c].out = ctx[c].out
                            /\ ctx'[c].why = ctx[c].why
             /\ IsPrefixOfFiltered(ctx'[c].out, ctx'[c].seen)
       /\ \A t \in Tasks :
             (CallbackCalled(t) /\ ctx'[t].pc = "show") => connections_data' = ctx[t].out
       /\ CallReturns =>
             /\ api'.snapshot = ctx[Caller].out
             /\ api.op = "get_connection_stats" =>
                   /\ api'.raised = ""
                   /\ api'.stats.total = Len(ctx[Caller].out)
             /\ (api.op = "export_connections" /\ api'.raised = "") =>
                   /\ api'.file # <<>>
                   /\ Len(json_load(api'.file[1])) = Len(ctx[Caller].out)]_vars

\* C24 happens: a process lookup or a geo resolution raised at the second
\* filtered socket; get_connection_stats has counted the one record made
\* before it, and the monitor thread has delivered such a list as well
C24_Witness ==
    /\ ApiReturned("get_connection_stats")
    /\ ctx[Caller].err \in {"OSError", "AttributeError"}
    /\ Len(SelectSeq(ctx[Caller].seen, PassesFilter)) = 2
    /\ Len(api.snapshot) = 1 /\ api.stats.total = 1
    /\ Len(connections_data) = 1

====
